---- MODULE Spec2Model ----
(***************************************************************************)
(* Model of the Delhi route optimisation scripts:                          *)
(*   scripts/sprint3_route_optimization.py  optimize_single_route()        *)
(*   scripts/sprint4_pooling_integration.py pooling_and_integration()      *)
(*   scripts/run_all_sprints.py             run_sprint()                   *)
(*                                                                         *)
(* Conventions.                                                            *)
(*  - A float is an exact non-negative rational <<n, d>> in lowest terms   *)
(*    (d > 0); rounding error of binary floating point is not modelled.    *)
(*  - NaN is the pandas missing value.                                     *)
(*  - A highway string is the sequence of its tokens, "primary_link" is    *)
(*    <<"primary", "_link">>, and Python's `a in b` on strings is          *)
(*    contiguous-subsequence containment.                                  *)
(*  - A data frame is a sequence of rows; a dict is a function or, where   *)
(*    insertion order matters, a sequence of key/value pairs.              *)
(*  - Each try block of a script is one step; `stage` is the step the      *)
(*    function is about to run, "completed" after its last line and        *)
(*    "returned" after an early return from an except handler.             *)
(***************************************************************************)
EXTENDS Integers, Sequences, FiniteSets, TLC

VARIABLES
    stage,              \* position in the running script
    roads_file,         \* data/delhi_road_network_filtered.geojson: [exists, rows]
    traffic_file,       \* data/delhi_simulated_traffic_data.csv: [exists, rows]
    roads_gdf,          \* rows read from roads_file
    traffic_df,         \* rows read from traffic_file
    avg_speeds,         \* result of the groupby/mean: [column, values]
    roads_with_traffic, \* roads_gdf left-merged with avg_speeds, gaps filled
    G,                  \* the graph: [nodes, edges]
    shortest_path,      \* sprint 3: the route found (a sequence of nodes)
    total_travel_time,  \* sprint 3: minutes along shortest_path
    total_distance,     \* sprint 3: metres along shortest_path
    num_shipments,      \* sprint 4: the number of shipments to generate
    n_clusters,         \* sprint 4: optimal_clusters, the k given to KMeans
    shipments,          \* sprint 4: the shipment list
    pools,              \* sprint 4: the dict label -> shipments, in insertion order
    pooled_results,     \* sprint 4: one pool_result per processed pool
    final_output,       \* sprint 4: the report written to delhi_pooled_routes.json
    reported,           \* what run_sprint printed about the sprint, "" before
    output,             \* the diagnostics printed so far
    pc,                 \* main(): position of the pipeline driver
    sprint_number,      \* main(): the loop variable, 0 before the loop
    ended,              \* how the sprint function called by run_sprint ended
    results,            \* main(): the list of (sprint_number, success)
    files,              \* the files in data/
    current_time,       \* sprint 2: the time the time-point loop has reached
    time_points         \* sprint 2: the time points generated so far

s3vars == <<shortest_path, total_travel_time, total_distance>>

s4vars == <<num_shipments, n_clusters, shipments, pools, pooled_results,
           final_output>>

\* The variables of the pipeline driver.
mainvars == <<pc, sprint_number, ended, results, files>>

\* The variables of sprint 2's time-point loop.
simvars == <<current_time, time_points>>

\* The variables of the sprints' insides, which the driver does not touch.
sprintvars == <<stage, roads_file, traffic_file, roads_gdf, traffic_df,
               avg_speeds, roads_with_traffic, G, s3vars, s4vars, reported,
               simvars>>

vars == <<stage, roads_file, traffic_file, roads_gdf, traffic_df, avg_speeds,
          roads_with_traffic, G, s3vars, s4vars, reported, output, mainvars,
          simvars>>

----------------------------------------------------------------------------
(* Bounds of the model. *)

\* Traffic tables hold at most MaxObs observations.
MaxObs == 2

\* At most MaxShipments shipments are generated.
MaxShipments == 3

----------------------------------------------------------------------------
(* Values. *)

\* The missing value (pandas NaN, Python None): the empty tuple, so that it
\* compares with floats <<n, d>> and with node sequences.
NaN == <<>>
None == <<>>

RECURSIVE GCD(_, _)
GCD(a, b) == IF b = 0 THEN a ELSE GCD(b, a % b)

\* The float n/d (n >= 0, d > 0).
Rat(n, d) == LET g == GCD(n, d) IN <<n \div g, d \div g>>

RatAdd(p, q) == Rat(p[1] * q[2] + q[1] * p[2], p[2] * q[2])
RatMul(p, q) == Rat(p[1] * q[1], p[2] * q[2])
\* p / q for q # 0 (Python raises ZeroDivisionError for q = 0).
RatDiv(p, q) == Rat(p[1] * q[2], p[2] * q[1])
RatLe(p, q) == p[1] * q[2] <= q[1] * p[2]
RatLt(p, q) == p[1] * q[2] < q[1] * p[2]
Zero == Rat(0, 1)

\* `a in b` for strings.
StrIn(a, b) ==
    \E i \in 0..(Len(b) - Len(a)) : \A j \in 1..Len(a) : b[i + j] = a[j]

primary == <<"primary">>
secondary == <<"secondary">>
tertiary == <<"tertiary">>
primary_link == <<"primary", "_link">>
secondary_link == <<"secondary", "_link">>
tertiary_link == <<"tertiary", "_link">>
residential == <<"residential">>

----------------------------------------------------------------------------
(* Inputs: the road network file and the traffic table file. *)

\* The road segments a network file may hold: endpoints, parallel-edge key,
\* OSM way id and road class. Nodes 1, 2, 3 are A, B, C; 1 -> 2 has two
\* parallel segments.
Slots ==
    { [u |-> 1, v |-> 2, key |-> 0, osmid |-> 101, highway |-> primary],
      [u |-> 2, v |-> 3, key |-> 0, osmid |-> 102, highway |-> secondary],
      [u |-> 1, v |-> 3, key |-> 0, osmid |-> 103, highway |-> tertiary_link],
      [u |-> 1, v |-> 2, key |-> 1, osmid |-> 104, highway |-> primary_link] }

\* Segment lengths in metres.
Lengths == {0, 1000, 2000}

\* Observed speeds in km/h.
Speeds == {0, 40, 50}

Osmids == {s.osmid : s \in Slots}

\* The rows of a set of records, in ascending osmid order.
RECURSIVE RowsOf(_)
RowsOf(S) ==
    IF S = {} THEN <<>>
    ELSE LET r == CHOOSE x \in S : \A y \in S : x.osmid <= y.osmid
         IN <<r>> \o RowsOf(S \ {r})

RoadRow(s, len) ==
    [u |-> s.u, v |-> s.v, key |-> s.key, osmid |-> s.osmid,
     highway |-> s.highway, length |-> Rat(len, 1)]

\* The columns sprint 1 keeps (those the later sprints read).
Sprint1Columns == {"u", "v", "key", "osmid", "length", "highway"}

\* Road tables as sprint 1 writes them: no avg_speed_kph column.
RoadTables ==
    UNION { { [columns |-> Sprint1Columns,
               rows |-> RowsOf({RoadRow(s, f[s]) : s \in S})] :
              f \in [S -> Lengths] } :
            S \in SUBSET Slots }

\* The segments the traffic table may hold observations of; the others have
\* none and take a default speed.
ObservedOsmids == {101, 102}

TrafficRows == [osmid : ObservedOsmids, simulated_speed_kph : Speeds]

\* The columns of the traffic table that the sprints read (the timestamp is
\* only parsed).
TrafficColumns == {"osmid", "simulated_speed_kph"}

\* A file that exists and holds table t, and a file that does not exist.
FileOf(t) == [exists |-> TRUE, columns |-> t.columns, rows |-> t.rows]
AbsentFile == [exists |-> FALSE, columns |-> {}, rows |-> <<>>]

\* Traffic tables as sprint 2 writes them: the observations of a segment are
\* consecutive rows, and the segments follow the road table's order.
TrafficTables ==
    UNION { { t \in [1..n -> TrafficRows] :
                \A i \in 1..(n - 1) : t[i].osmid <= t[i + 1].osmid } :
            n \in 0..MaxObs }

----------------------------------------------------------------------------
(* Helpers shared by sprint 3 and sprint 4. *)

\* The float-valued columns: the only ones that can hold NaN.
FloatColumns == {"length", "avg_speed_kph", "simulated_speed_kph"}

RECURSIVE SumSpeeds(_, _)
SumSpeeds(df, id) ==
    IF df = <<>> THEN 0
    ELSE (IF Head(df).osmid = id THEN Head(df).simulated_speed_kph ELSE 0)
         + SumSpeeds(Tail(df), id)

CountObs(df, id) == Cardinality({i \in DOMAIN df : df[i].osmid = id})

\* The aggregation that sums a segment's speeds and does not divide.
GroupBySum(df) ==
    [id \in {df[i].osmid : i \in DOMAIN df} |-> Rat(SumSpeeds(df, id), 1)]

\* The aggregation that keeps a segment's last observation.
GroupByLast(df) ==
    [id \in {df[i].osmid : i \in DOMAIN df} |->
        LET last == CHOOSE i \in DOMAIN df :
                       /\ df[i].osmid = id
                       /\ \A j \in DOMAIN df : df[j].osmid = id => j <= i
        IN Rat(df[last].simulated_speed_kph, 1)]

\* traffic_df.groupby('osmid')['simulated_speed_kph'].mean(): one entry per
\* osmid that occurs in the table, the mean of its speeds.
GroupByMean(df) ==
    [id \in {df[i].osmid : i \in DOMAIN df} |->
        Rat(SumSpeeds(df, id), CountObs(df, id))]

\* roads_gdf.merge(avg_speeds, on='osmid', how='left'): every road row, with
\* the value column of avg_speeds added (NaN where the osmid has no entry).
MergeLeft(roads, avg) ==
    [columns |-> roads.columns \cup {avg.column},
     rows |-> [i \in DOMAIN roads.rows |->
                 LET r == roads.rows[i]
                 IN (avg.column :>
                        (IF r.osmid \in DOMAIN avg.mean
                         THEN avg.mean[r.osmid] ELSE NaN)) @@ r]]

\* ox.graph_from_gdfs(gdf_nodes=None, gdf_edges=...): one edge per row, its
\* attributes the row's non-NaN columns; the nodes are the edges' endpoints.
EdgeData(row) ==
    [c \in {k \in DOMAIN row : k \notin FloatColumns \/ row[k] # NaN} |-> row[c]]

graph_from_gdfs(gdf_edges) ==
    LET es == {EdgeData(gdf_edges.rows[i]) : i \in DOMAIN gdf_edges.rows}
    IN [nodes |-> {e.u : e \in es} \cup {e.v : e \in es}, edges |-> es]

\* data.get(name, default)
Get(data, name, default) == IF name \in DOMAIN data THEN data[name] ELSE default

\* The travel time in hours taken for minutes (the factor 60 left out).
TravelTimeHours(data) ==
    RatDiv(RatDiv(Get(data, "length", Rat(1000, 1)), Rat(1000, 1)),
           Get(data, "avg_speed_kph", Rat(30, 1)))

\* The loop body that computes an edge's travel time in minutes:
\* (length / 1000 / speed) * 60.
TravelTimeMinutes(data) ==
    LET length_km == RatDiv(Get(data, "length", Rat(1000, 1)), Rat(1000, 1))
        speed_kph == Get(data, "avg_speed_kph", Rat(30, 1))
    IN RatMul(RatDiv(length_km, speed_kph), Rat(60, 1))

\* The division length_km / speed_kph raises ZeroDivisionError: the edge
\* attributes are Python floats (graph_from_gdfs reads them out of an object
\* array), so a zero speed raises instead of giving inf.
RaisesZeroDivision(data) == Get(data, "avg_speed_kph", Rat(30, 1)) = Zero

\* The graph after the loop that sets G[u][v][key]['travel_time'].
WithTravelTimes(Gr) ==
    [nodes |-> Gr.nodes,
     edges |-> {("travel_time" :> TravelTimeMinutes(e)) @@ e : e \in Gr.edges}]

----------------------------------------------------------------------------
(* Shortest paths: ox.shortest_path(G, orig, dest, weight), which runs       *)
(* networkx's Dijkstra on the multigraph; between two nodes joined by        *)
(* parallel edges Dijkstra uses the least weight among them.                 *)

\* G[u][v]: the parallel edges from u to v.
EdgesBetween(Gr, u, v) == {e \in Gr.edges : e.u = u /\ e.v = v}

\* The least element of a non-empty set of floats.
RatMin(S) == CHOOSE x \in S : \A y \in S : RatLe(x, y)

\* networkx's weight function for a multigraph: the minimum of the weight
\* attribute over the parallel edges.
EdgeWeight(Gr, u, v, weight) == RatMin({e[weight] : e \in EdgesBetween(Gr, u, v)})

Successors(Gr, u) == {e.v : e \in {x \in Gr.edges : x.u = u}}

\* One run of Dijkstra from the state (dist, pred, done): dist and pred are
\* defined on the nodes reached so far, done is the set of settled nodes.
RECURSIVE Dijkstra(_, _, _, _, _)
Dijkstra(Gr, weight, dist, pred, done) ==
    LET frontier == DOMAIN dist \ done
    IN IF frontier = {} THEN [dist |-> dist, pred |-> pred]
       ELSE LET u == CHOOSE n \in frontier :
                        \A m \in frontier :
                           /\ RatLe(dist[n], dist[m])
                           /\ (RatLe(dist[m], dist[n]) => n <= m)
                via(v) == RatAdd(dist[u], EdgeWeight(Gr, u, v, weight))
                better == {v \in Successors(Gr, u) \ done :
                              v \notin DOMAIN dist \/ RatLt(via(v), dist[v])}
                dist2 == [v \in DOMAIN dist \cup better |->
                             IF v \in better THEN via(v) ELSE dist[v]]
                pred2 == [v \in DOMAIN dist \cup better |->
                             IF v \in better THEN u ELSE pred[v]]
            IN Dijkstra(Gr, weight, dist2, pred2, done \cup {u})

\* The path from orig to node n recorded in pred.
RECURSIVE PathTo(_, _, _)
PathTo(pred, orig, n) ==
    IF n = orig THEN <<orig>> ELSE Append(PathTo(pred, orig, pred[n]), n)

\* The path found, or None when dest is not reachable from orig (networkx
\* raises NetworkXNoPath).
ShortestPath(Gr, orig, dest, weight) ==
    LET r == Dijkstra(Gr, weight, (orig :> Zero), (orig :> orig), {})
    IN IF dest \in DOMAIN r.dist THEN PathTo(r.pred, orig, dest) ELSE None

\* The call of sprint 3: ox.shortest_path(G, start_node, end_node,
\* weight='travel_time').
shortest_path_3_by_length(Gr, orig, dest) == ShortestPath(Gr, orig, dest, "length")
shortest_path_3(Gr, orig, dest) == ShortestPath(Gr, orig, dest, "travel_time")

\* DRLAgent.find_optimal_path of sprint 4, with its default weight: the path,
\* or None when there is none.
find_optimal_path(Gr, start_node, end_node) ==
    ShortestPath(Gr, start_node, end_node, "travel_time")

----------------------------------------------------------------------------
(* The spatial locator: ox.nearest_nodes(G, X, Y). *)

\* A node's coordinates <<x, y>>: the nodes lie on a line, 10 units apart.
NodeXY(n) == <<10 * n, 0>>

Dist2(p, q) == (p[1] - q[1]) * (p[1] - q[1]) + (p[2] - q[2]) * (p[2] - q[2])

\* The node nearest to (X, Y); of two equally near nodes, the one with the
\* lower index. The graph must have a node (ox.nearest_nodes raises on an
\* empty graph).
nearest_nodes(Gr, X, Y) ==
    CHOOSE n \in Gr.nodes :
        \A m \in Gr.nodes :
            /\ Dist2(NodeXY(n), <<X, Y>>) <= Dist2(NodeXY(m), <<X, Y>>)
            /\ (Dist2(NodeXY(n), <<X, Y>>) = Dist2(NodeXY(m), <<X, Y>>) => n <= m)

----------------------------------------------------------------------------
(* Sprint 3: optimize_single_route(). *)

\* The dict default_speeds of sprint 3, in insertion order.
default_speeds_3 ==
    << <<primary, 45>>, <<secondary, 35>>, <<tertiary, 25>>,
       <<primary_link, 40>>, <<secondary_link, 30>>, <<tertiary_link, 20>> >>

\* get_default_speed: the speed of the first road type, in the dict's order,
\* that occurs in the highway string; 30 when none does.
get_default_speed(highway) ==
    LET hits == {i \in DOMAIN default_speeds_3 :
                    StrIn(default_speeds_3[i][1], highway)}
    IN IF hits = {} THEN 30
       ELSE default_speeds_3[CHOOSE i \in hits : \A j \in hits : i <= j][2]

\* roads_with_traffic.loc[mask, 'avg_speed_kph'] = ...apply(get_default_speed)
FillDefaults3(df) ==
    [columns |-> df.columns,
     rows |-> [i \in DOMAIN df.rows |->
                 LET r == df.rows[i]
                 IN IF r.avg_speed_kph = NaN
                    THEN [r EXCEPT !.avg_speed_kph =
                              Rat(get_default_speed(r.highway), 1)]
                    ELSE r]]

\* The segment of lowest key between u and v, whatever its travel time.
StatsEdgeFirst(Gr, u, v) ==
    LET edge_data == EdgesBetween(Gr, u, v)
    IN CHOOSE e \in edge_data : \A f \in edge_data : e.key <= f.key

\* Of the parallel edges from u to v, the one the statistics use: the only
\* one, or the one with minimum travel time (min() keeps the first of equal
\* candidates, the lowest key).
StatsEdge(Gr, u, v) ==
    LET edge_data == EdgesBetween(Gr, u, v)
    IN CHOOSE e \in edge_data :
          \A f \in edge_data :
             /\ RatLe(e.travel_time, f.travel_time)
             /\ (RatLe(f.travel_time, e.travel_time) => e.key <= f.key)

\* The sums over the consecutive node pairs of a path, as
\* [travel_time |-> minutes, length |-> metres].
RECURSIVE PathSums(_, _)
PathSums(Gr, path) ==
    IF Len(path) < 2 THEN [travel_time |-> Zero, length |-> Zero]
    ELSE LET edge_info == StatsEdge(Gr, path[1], path[2])
             rest == PathSums(Gr, Tail(path))
         IN [travel_time |->
                RatAdd(Get(edge_info, "travel_time", Zero), rest.travel_time),
             length |-> RatAdd(Get(edge_info, "length", Zero), rest.length)]

\* The landmarks of sprint 3 as (x, y) = (lng, lat) on the model's grid.
start_coords == <<8, 0>>
end_coords == <<32, 0>>

S3Load ==
    /\ UNCHANGED mainvars
    /\ UNCHANGED simvars
    /\ UNCHANGED <<s4vars, reported>>
    /\ stage = "s3_load"
    /\ IF ~roads_file.exists
       THEN /\ stage' = "returned"
            /\ output' = Append(output, "Road network file not found")
            /\ UNCHANGED <<roads_gdf, traffic_df>>
       ELSE IF ~traffic_file.exists
       THEN /\ stage' = "returned"
            /\ roads_gdf' = [columns |-> roads_file.columns, rows |-> roads_file.rows]
            /\ output' = Append(output, "Traffic data file not found")
            /\ UNCHANGED traffic_df
       ELSE /\ stage' = "s3_avg"
            /\ roads_gdf' = [columns |-> roads_file.columns, rows |-> roads_file.rows]
            /\ traffic_df' = traffic_file.rows
            /\ UNCHANGED output
    /\ UNCHANGED <<roads_file, traffic_file, avg_speeds, roads_with_traffic, G,
                   shortest_path, total_travel_time, total_distance>>

\* groupby/mean, then avg_speeds.columns = ['osmid', 'avg_speed_kph'].
S3AvgSpeeds ==
    /\ UNCHANGED mainvars
    /\ UNCHANGED simvars
    /\ UNCHANGED <<s4vars, reported>>
    /\ stage = "s3_avg"
    /\ avg_speeds' = [column |-> "avg_speed_kph", mean |-> GroupByMean(traffic_df)]
    /\ stage' = "s3_merge"
    /\ UNCHANGED <<roads_file, traffic_file, roads_gdf, traffic_df,
                   roads_with_traffic, G, shortest_path, total_travel_time,
                   total_distance, output>>

S3Merge ==
    /\ UNCHANGED mainvars
    /\ UNCHANGED simvars
    /\ UNCHANGED <<s4vars, reported>>
    /\ stage = "s3_merge"
    /\ roads_with_traffic' = FillDefaults3(MergeLeft(roads_gdf, avg_speeds))
    /\ stage' = "s3_graph"
    /\ UNCHANGED <<roads_file, traffic_file, roads_gdf, traffic_df, avg_speeds,
                   G, shortest_path, total_travel_time, total_distance, output>>

S3BuildGraph ==
    /\ UNCHANGED mainvars
    /\ UNCHANGED simvars
    /\ UNCHANGED <<s4vars, reported>>
    /\ stage = "s3_graph"
    /\ LET Gr == graph_from_gdfs(roads_with_traffic)
       IN IF \E e \in Gr.edges : RaisesZeroDivision(e)
          THEN /\ G' = Gr
               /\ stage' = "returned"
               /\ output' = Append(output, "Error rebuilding graph")
          ELSE /\ G' = WithTravelTimes(Gr)
               /\ stage' = "s3_route"
               /\ UNCHANGED output
    /\ UNCHANGED <<roads_file, traffic_file, roads_gdf, traffic_df, avg_speeds,
                   roads_with_traffic, shortest_path, total_travel_time,
                   total_distance>>

S3FindRoute ==
    /\ UNCHANGED mainvars
    /\ UNCHANGED simvars
    /\ UNCHANGED <<s4vars, reported>>
    /\ stage = "s3_route"
    /\ IF G.nodes = {}
       THEN \* ox.nearest_nodes raises on a graph without nodes
            /\ stage' = "returned"
            /\ output' = Append(output, "Error finding route")
            /\ UNCHANGED <<shortest_path, total_travel_time, total_distance>>
       ELSE LET start_node == nearest_nodes(G, start_coords[1], start_coords[2])
                end_node == nearest_nodes(G, end_coords[1], end_coords[2])
                path == shortest_path_3(G, start_node, end_node)
            IN IF path = None
               THEN /\ stage' = "returned"
                    /\ output' = Append(output, "No path found between start and end points")
                    /\ UNCHANGED <<shortest_path, total_travel_time, total_distance>>
               ELSE /\ shortest_path' = path
                    /\ total_travel_time' = PathSums(G, path).travel_time
                    /\ total_distance' = PathSums(G, path).length
                    /\ stage' = "s3_save"
                    /\ UNCHANGED output
    /\ UNCHANGED <<roads_file, traffic_file, roads_gdf, traffic_df, avg_speeds,
                   roads_with_traffic, G>>

\* Steps 6 and 7: the plot and the CSV of the route are written.
S3Save ==
    /\ UNCHANGED mainvars
    /\ UNCHANGED simvars
    /\ UNCHANGED <<s4vars, reported>>
    /\ stage = "s3_save"
    /\ stage' = "completed"
    /\ output' = Append(output, "Sprint 3 completed successfully!")
    /\ UNCHANGED <<roads_file, traffic_file, roads_gdf, traffic_df, avg_speeds,
                   roads_with_traffic, G, shortest_path, total_travel_time,
                   total_distance>>

\* total_distance_km = total_distance / 1000
total_distance_km == RatDiv(total_distance, Rat(1000, 1))

InitRoute ==
    /\ current_time = <<>>
    /\ time_points = <<>>
    /\ pc = "idle"
    /\ sprint_number = 0
    /\ ended = ""
    /\ results = <<>>
    /\ files = {}
    /\ stage = "s3_load"
    /\ roads_file \in {AbsentFile} \cup {FileOf(t) : t \in RoadTables}
    /\ traffic_file \in {AbsentFile}
                        \cup {FileOf([columns |-> TrafficColumns, rows |-> t]) :
                                 t \in TrafficTables}
    /\ roads_gdf = [columns |-> {}, rows |-> <<>>]
    /\ traffic_df = <<>>
    /\ avg_speeds = [column |-> "", mean |-> <<>>]
    /\ roads_with_traffic = [columns |-> {}, rows |-> <<>>]
    /\ G = [nodes |-> {}, edges |-> {}]
    /\ shortest_path = None
    /\ total_travel_time = Zero
    /\ total_distance = Zero
    /\ num_shipments = 0
    /\ n_clusters = 0
    /\ shipments = <<>>
    /\ pools = <<>>
    /\ pooled_results = <<>>
    /\ final_output = <<>>
    /\ reported = ""
    /\ output = <<>>

NextRoute ==
    \/ S3Load
    \/ S3AvgSpeeds
    \/ S3Merge
    \/ S3BuildGraph
    \/ S3FindRoute
    \/ S3Save

SpecRoute == InitRoute /\ [][NextRoute]_vars

----------------------------------------------------------------------------
(* Sprint 4: pooling_and_integration(), and run_sprint() around it. *)

\* The road tables sprint 4 may find: a table of sprint 1 (no avg_speed_kph
\* column), or a table that has the column, with a speed, zero or NaN in each
\* row. Tables have at most two segments; a segment's length goes with its
\* slot.
PoolLength(s) == IF s.osmid = 101 THEN 1000 ELSE 2000

PoolSpeeds == {NaN, Rat(0, 1), Rat(40, 1)}

PoolSlotSets == {S \in SUBSET Slots : Cardinality(S) <= 2}

PoolRoadTables ==
    { [columns |-> Sprint1Columns,
       rows |-> RowsOf({RoadRow(s, PoolLength(s)) : s \in S})] : S \in PoolSlotSets }
    \cup
    UNION { { [columns |-> Sprint1Columns \cup {"avg_speed_kph"},
               rows |-> RowsOf({ ("avg_speed_kph" :> f[s]) @@ RoadRow(s, PoolLength(s)) :
                                 s \in S })] :
              f \in [S -> PoolSpeeds] } :
            S \in PoolSlotSets }

\* The traffic tables of the pooling run: empty, or one observation.
PoolTrafficTables ==
    { <<>>, <<[osmid |-> 101, simulated_speed_kph |-> 40]>> }

\* roads_with_traffic.loc[mask, 'avg_speed_kph'] = 30
FillDefaults4(df) ==
    [columns |-> df.columns,
     rows |-> [i \in DOMAIN df.rows |->
                 LET r == df.rows[i]
                 IN IF r.avg_speed_kph = NaN
                    THEN [r EXCEPT !.avg_speed_kph = Rat(30, 1)]
                    ELSE r]]

\* Step 1. The whole step is one try block: a missing file, a missing
\* avg_speed_kph column (KeyError: the groupby result keeps the column name
\* simulated_speed_kph, so the merge adds no avg_speed_kph column) and a zero
\* speed (ZeroDivisionError) all end in its except handler. Step 2 wraps the
\* graph in the DRLAgent.
S4BuildGraph ==
    /\ UNCHANGED mainvars
    /\ UNCHANGED simvars
    /\ stage = "s4_graph"
    /\ UNCHANGED <<roads_file, traffic_file, s3vars, s4vars, reported>>
    /\ IF ~roads_file.exists \/ ~traffic_file.exists
       THEN /\ stage' = "returned"
            /\ output' = Append(output, "Error rebuilding graph")
            /\ UNCHANGED <<roads_gdf, traffic_df, avg_speeds, roads_with_traffic, G>>
       ELSE LET roads == [columns |-> roads_file.columns, rows |-> roads_file.rows]
                avg == [column |-> "simulated_speed_kph",
                        mean |-> GroupByMean(traffic_file.rows)]
                merged == MergeLeft(roads, avg)
            IN /\ roads_gdf' = roads
               /\ traffic_df' = traffic_file.rows
               /\ avg_speeds' = avg
               /\ IF "avg_speed_kph" \notin merged.columns
                  THEN /\ roads_with_traffic' = merged
                       /\ stage' = "returned"
                       /\ output' = Append(output, "Error rebuilding graph")
                       /\ UNCHANGED G
                  ELSE LET Gr == graph_from_gdfs(FillDefaults4(merged))
                       IN /\ roads_with_traffic' = FillDefaults4(merged)
                          /\ IF \E e \in Gr.edges : RaisesZeroDivision(e)
                             THEN /\ G' = Gr
                                  /\ stage' = "returned"
                                  /\ output' = Append(output, "Error rebuilding graph")
                             ELSE /\ G' = WithTravelTimes(Gr)
                                  /\ stage' = "s4_shipments"
                                  /\ UNCHANGED output

\* Step 3. The coordinates np.random draws: each shipment goes from one of a
\* few pickup points to one of a few drop-off points, given as <<lat, lng>>.
\* The priority is opaque to pooling and routing and is left out.
ShipmentRoutes ==
    { [start |-> <<0, 9>>, end |-> <<1, 29>>],
      [start |-> <<0, 21>>, end |-> <<1, 29>>],
      [start |-> <<0, 21>>, end |-> <<0, 9>>] }

Shipment(i, route) ==
    [shipment_id |-> i,
     start_lat |-> route.start[1], start_lng |-> route.start[2],
     end_lat |-> route.end[1], end_lng |-> route.end[2],
     weight |-> 100 * i]

S4GenerateShipments ==
    /\ UNCHANGED mainvars
    /\ UNCHANGED simvars
    /\ stage = "s4_shipments"
    /\ \E routes \in [1..num_shipments -> ShipmentRoutes] :
          shipments' = [i \in 1..num_shipments |-> Shipment(i, routes[i])]
    /\ stage' = "s4_pooling"
    /\ UNCHANGED <<roads_file, traffic_file, roads_gdf, traffic_df, avg_speeds,
                   roads_with_traffic, G, s3vars, num_shipments, n_clusters,
                   pools, pooled_results, final_output, reported, output>>

Max2(a, b) == IF a >= b THEN a ELSE b
Min2(a, b) == IF a <= b THEN a ELSE b

\* optimal_clusters = max(2, min(8, len(shipments) // 4))
optimal_clusters_per_shipment(n) == Max2(2, Min2(8, n))
optimal_clusters(n) == Max2(2, Min2(8, n \div 4))

\* pools[label].append(shipments[i]), creating the entry of a new label at
\* the end of the dict.
AddToPool(ps, label, ship) ==
    IF \E j \in DOMAIN ps : ps[j].label = label
    THEN [j \in DOMAIN ps |->
            IF ps[j].label = label
            THEN [ps[j] EXCEPT !.members = Append(@, ship)]
            ELSE ps[j]]
    ELSE Append(ps, [label |-> label, members |-> <<ship>>])

\* The variant that keeps only a label's first shipment.
RECURSIVE GroupFirstOnly(_, _)
GroupFirstOnly(ships, i) ==
    IF i = 0 THEN <<>>
    ELSE LET ps == GroupFirstOnly(ships, i - 1)
         IN IF \E j \in DOMAIN ps : ps[j].label = ships[i].cluster
            THEN ps
            ELSE Append(ps, [label |-> ships[i].cluster, members |-> <<ships[i]>>])

\* The loop that groups the first i shipments by their cluster label.
RECURSIVE GroupByCluster(_, _)
GroupByCluster(ships, i) ==
    IF i = 0 THEN <<>>
    ELSE AddToPool(GroupByCluster(ships, i - 1), ships[i].cluster, ships[i])

\* Step 4. StandardScaler.fit_transform raises on the empty coordinate array
\* (no shipment); KMeans.fit_predict raises when there are fewer samples than
\* clusters; otherwise it labels every shipment with one of the labels
\* 0..k-1 (which labels it gives depends on the coordinates and the seed and
\* is left open).
S4Pooling ==
    /\ UNCHANGED mainvars
    /\ UNCHANGED simvars
    /\ stage = "s4_pooling"
    /\ UNCHANGED <<roads_file, traffic_file, roads_gdf, traffic_df, avg_speeds,
                   roads_with_traffic, G, s3vars, num_shipments, pooled_results,
                   final_output, reported>>
    /\ IF Len(shipments) = 0
       THEN /\ stage' = "returned"
            /\ output' = Append(output, "Error in shipment pooling")
            /\ UNCHANGED <<n_clusters, shipments, pools>>
       ELSE /\ n_clusters' = optimal_clusters(Len(shipments))
            /\ IF Len(shipments) < n_clusters'
               THEN /\ stage' = "returned"
                    /\ output' = Append(output, "Error in shipment pooling")
                    /\ UNCHANGED <<shipments, pools>>
               ELSE /\ \E cluster_labels \in [DOMAIN shipments -> 0..(n_clusters' - 1)] :
                          /\ shipments' = [i \in DOMAIN shipments |->
                                             ("cluster" :> cluster_labels[i]) @@ shipments[i]]
                          /\ pools' = GroupByCluster(shipments', Len(shipments'))
                    /\ stage' = "s4_routes"
                    /\ UNCHANGED output

\* The pickup and the delivery stop of each shipment of a pool, in the
\* pool's order.
RECURSIVE StopsOf(_)
StopsOf(pool_shipments) ==
    IF pool_shipments = <<>> THEN <<>>
    ELSE LET ship == Head(pool_shipments)
         IN << [type |-> "pickup", shipment_id |-> ship.shipment_id,
                lat |-> ship.start_lat, lng |-> ship.start_lng,
                weight |-> ship.weight],
               [type |-> "delivery", shipment_id |-> ship.shipment_id,
                lat |-> ship.end_lat, lng |-> ship.end_lng,
                weight |-> ship.weight] >>
              \o StopsOf(Tail(pool_shipments))

RECURSIVE SumOver(_, _)
SumOver(seq, field) ==
    IF seq = <<>> THEN 0 ELSE Head(seq)[field] + SumOver(Tail(seq), field)

RECURSIVE RatSumOver(_, _)
RatSumOver(seq, field) ==
    IF seq = <<>> THEN Zero
    ELSE RatAdd(Head(seq)[field], RatSumOver(Tail(seq), field))

\* The list left as it is, not sorted.
Unsorted(seq, keys) == seq

\* list.sort(key=...): ascending by key, equal keys in their former order.
\* keys[i] is the key of seq[i].
SortByKey(seq, keys) ==
    LET pos(i) == 1 + Cardinality({j \in DOMAIN seq :
                         keys[j] < keys[i] \/ (keys[j] = keys[i] /\ j < i)})
    IN [p \in DOMAIN seq |-> seq[CHOOSE i \in DOMAIN seq : pos(i) = p]]

\* The sort key of a pickup: its distance from the centroid of the pickups.
\* The order of sqrt(((lat - mean_lat)^2 + (lng - mean_lng)^2)) is the order
\* of (n*lat - sum_lat)^2 + (n*lng - sum_lng)^2, n the number of pickups.
distance_from_center(pickup, pickups) ==
    LET n == Len(pickups)
        dlat == n * pickup.lat - SumOver(pickups, "lat")
        dlng == n * pickup.lng - SumOver(pickups, "lng")
    IN dlat * dlat + dlng * dlng

\* The sort key of a delivery: its (squared) distance from the last pickup.
distance_from_last_pickup(delivery, last_pickup) ==
    Dist2(<<delivery.lat, delivery.lng>>, <<last_pickup.lat, last_pickup.lng>>)

\* The stops in the order they were collected: each shipment's pickup
\* followed by its delivery.
StopsInShipmentOrder(pool_shipments) == StopsOf(pool_shipments)

\* pickups.sort(key=lambda x: x['distance_from_center'])
SortedPickups(stops) ==
    CHOOSE pickups \in
       { SortByKey(pickups0, keys) :
            <<pickups0, keys>> \in
               { <<p, [i \in DOMAIN p |-> distance_from_center(p[i], p)]>> :
                    p \in {SelectSeq(stops, LAMBDA st : st.type = "pickup")} } } : TRUE

\* deliveries.sort(key=lambda x: x['distance_from_last_pickup'])
SortedDeliveries(stops, last_pickup) ==
    CHOOSE deliveries \in
       { SortByKey(deliveries0, keys) :
            <<deliveries0, keys>> \in
               { <<d, [i \in DOMAIN d |-> distance_from_last_pickup(d[i], last_pickup)]>> :
                    d \in {SelectSeq(stops, LAMBDA st : st.type = "delivery")} } } : TRUE

\* ordered_stops = pickups + deliveries, each sorted.
OrderedStops(pool_shipments) ==
    CHOOSE ordered_stops \in
       { pickups \o SortedDeliveries(stops, pickups[Len(pickups)]) :
            <<stops, pickups>> \in
               { <<st, SortedPickups(st)>> : st \in {StopsOf(pool_shipments)} } } : TRUE

\* DRLAgent.calculate_path_stats: distance in km and travel time in minutes
\* along a path; G[u][v] is taken to be the dict of the parallel edges, as the
\* isinstance test expects.
calculate_path_stats(Gr, path) ==
    IF path = None \/ Len(path) < 2
    THEN [distance |-> Zero, travel_time |-> Zero, avg_speed |-> Zero]
    ELSE LET sums == PathSums(Gr, path)
             total_km == RatDiv(sums.length, Rat(1000, 1))
         IN [distance |-> total_km,
             travel_time |-> sums.travel_time,
             avg_speed |-> IF RatLt(Zero, sums.travel_time)
                           THEN RatDiv(total_km, RatDiv(sums.travel_time, Rat(60, 1)))
                           ELSE Zero]

\* ox.nearest_nodes raises for every stop when the graph has no node.
ResolveFails(Gr) == Gr.nodes = {}

\* The node of a stop.
StopNode(Gr, stop) == nearest_nodes(Gr, stop.lng, stop.lat)

\* The path of the leg from stop i to stop i + 1, or None.
LegPath(Gr, ordered_stops, i) ==
    find_optimal_path(Gr, StopNode(Gr, ordered_stops[i]),
                          StopNode(Gr, ordered_stops[i + 1]))

\* The entries the stop loop appends to route_coordinates: one per stop
\* whose node was resolved (sequence counts from 0).
RouteCoordinates(Gr, ordered_stops) ==
    IF ResolveFails(Gr) THEN <<>>
    ELSE [i \in DOMAIN ordered_stops |->
            LET node == StopNode(Gr, ordered_stops[i])
            IN [sequence |-> i - 1,
                stop_type |-> ordered_stops[i].type,
                shipment_id |-> ordered_stops[i].shipment_id,
                latitude |-> NodeXY(node)[2],
                longitude |-> NodeXY(node)[1]]]

\* The totals over the legs 1..i of the stop loop: a leg adds its statistics
\* when it has a path, and nothing otherwise.
RECURSIVE LegTotals(_, _, _)
LegTotals(Gr, ordered_stops, i) ==
    IF i = 0 \/ ResolveFails(Gr) THEN [travel_time |-> Zero, distance |-> Zero]
    ELSE CHOOSE totals \in
            { IF path # None
              THEN [travel_time |-> RatAdd(before.travel_time, stats.travel_time),
                    distance |-> RatAdd(before.distance, stats.distance)]
              ELSE before :
                before \in {LegTotals(Gr, ordered_stops, i - 1)},
                <<path, stats>> \in
                   { <<p, calculate_path_stats(Gr, p)>> :
                        p \in {LegPath(Gr, ordered_stops, i)} } } : TRUE

\* The warnings the stop loop prints: one per stop whose processing raised.
StopWarnings(Gr, ordered_stops) ==
    IF ResolveFails(Gr)
    THEN [i \in DOMAIN ordered_stops |-> "Warning: Could not process stop"]
    ELSE <<>>

\* round(x, 2): x rounded to hundredths, a tie to the even hundredth.
Round2(x) ==
    LET n == 100 * x[1]
        q == n \div x[2]
        r == n % x[2]
    IN Rat(IF 2 * r < x[2] THEN q
           ELSE IF 2 * r > x[2] THEN q + 1
           ELSE IF q % 2 = 0 THEN q ELSE q + 1, 100)

\* max(1, x)
RatMax1(x) == IF RatLe(Rat(1, 1), x) THEN x ELSE Rat(1, 1)

\* The pool_result whose totals are not reset between pools: they go on
\* from the totals of the results already appended.
PoolResultCarried(Gr, pool) ==
    LET pool_shipments == pool.members
        ordered_stops == OrderedStops(pool_shipments)
        own == LegTotals(Gr, ordered_stops, Len(ordered_stops) - 1)
        totals == [distance |-> RatAdd(own.distance,
                                   RatSumOver(pooled_results, "total_distance_km")),
                   travel_time |-> RatAdd(own.travel_time,
                                   RatSumOver(pooled_results, "total_travel_time_minutes"))]
    IN [group_id |-> <<"POOL", pool.label>>,
        shipments |-> [i \in DOMAIN pool_shipments |-> pool_shipments[i].shipment_id],
        num_shipments |-> Len(pool_shipments),
        total_weight |-> SumOver(pool_shipments, "weight"),
        route_coordinates |-> RouteCoordinates(Gr, ordered_stops),
        total_distance_km |-> Round2(totals.distance),
        total_travel_time_minutes |-> Round2(totals.travel_time),
        num_stops |-> Len(ordered_stops),
        efficiency_score |->
            Round2(RatDiv(Rat(Len(pool_shipments), 1),
                          RatMax1(RatDiv(totals.travel_time, Rat(60, 1)))))]

\* The pool_result of one pool.
PoolResult(Gr, pool) ==
    CHOOSE pool_result \in
       { [group_id |-> <<"POOL", pool.label>>,
          shipments |-> [i \in DOMAIN pool.members |-> pool.members[i].shipment_id],
          num_shipments |-> Len(pool.members),
          total_weight |-> SumOver(pool.members, "weight"),
          route_coordinates |-> RouteCoordinates(Gr, ordered_stops),
          total_distance_km |-> Round2(totals.distance),
          total_travel_time_minutes |-> Round2(totals.travel_time),
          num_stops |-> Len(ordered_stops),
          efficiency_score |->
              Round2(RatDiv(Rat(Len(pool.members), 1),
                            RatMax1(RatDiv(totals.travel_time, Rat(60, 1)))))] :
         <<ordered_stops, totals>> \in
            { <<st, LegTotals(Gr, st, Len(st) - 1)>> :
                 st \in {OrderedStops(pool.members)} } } : TRUE

\* Step 5, one pass of the loop over pools.items(): the next pool, in the
\* dict's order, is routed and its result appended.
S4ProcessPool ==
    /\ UNCHANGED mainvars
    /\ UNCHANGED simvars
    /\ stage = "s4_routes"
    /\ Len(pooled_results) < Len(pools)
    /\ LET pool == pools[Len(pooled_results) + 1]
       IN /\ pooled_results' = Append(pooled_results, PoolResult(G, pool))
          /\ output' = output \o StopWarnings(G, OrderedStops(pool.members))
    /\ UNCHANGED <<stage, roads_file, traffic_file, roads_gdf, traffic_df,
                   avg_speeds, roads_with_traffic, G, s3vars, num_shipments,
                   n_clusters, shipments, pools, final_output, reported>>

\* The summary whose travel time is left in minutes.
summary_statistics_minutes(pool_results) ==
    [total_distance_km |-> RatSumOver(pool_results, "total_distance_km"),
     total_travel_time_hours |-> RatSumOver(pool_results, "total_travel_time_minutes"),
     average_shipments_per_pool |->
         Rat(SumOver(pool_results, "num_shipments"), Len(pool_results)),
     average_efficiency_score |->
         RatDiv(RatSumOver(pool_results, "efficiency_score"), Rat(Len(pool_results), 1))]

\* final_output['summary_statistics'] of a non-empty list of pool results.
summary_statistics(pool_results) ==
    [total_distance_km |-> RatSumOver(pool_results, "total_distance_km"),
     total_travel_time_hours |->
         RatDiv(RatSumOver(pool_results, "total_travel_time_minutes"), Rat(60, 1)),
     average_shipments_per_pool |->
         Rat(SumOver(pool_results, "num_shipments"), Len(pool_results)),
     average_efficiency_score |->
         RatDiv(RatSumOver(pool_results, "efficiency_score"), Rat(Len(pool_results), 1))]

\* Step 6, after the loop over the pools. json.dump either writes the file
\* or raises TypeError inside the try block (the cluster labels stored in the
\* shipments are numpy integers, which json may refuse).
S4FinalOutput ==
    /\ UNCHANGED mainvars
    /\ UNCHANGED simvars
    /\ stage = "s4_routes"
    /\ Len(pooled_results) = Len(pools)
    /\ final_output' =
          [metadata |-> [total_shipments |-> Len(shipments),
                         total_pools |-> Len(pooled_results)],
           summary_statistics |-> summary_statistics(pooled_results),
           pooled_routes |-> pooled_results,
           individual_shipments |-> shipments]
    /\ \/ /\ stage' = "completed"
          /\ output' = Append(output, "Sprint 4 completed successfully!")
       \/ /\ stage' = "returned"
          /\ output' = Append(output, "Error generating final output")
    /\ UNCHANGED <<roads_file, traffic_file, roads_gdf, traffic_df, avg_speeds,
                   roads_with_traffic, G, s3vars, num_shipments, n_clusters,
                   shipments, pools, pooled_results, reported>>

\* run_sprint: pooling_and_integration() has returned, by any of its return
\* statements or by reaching its end, and no exception leaves it.
RunSprintReturn ==
    /\ UNCHANGED mainvars
    /\ UNCHANGED simvars
    /\ stage \in {"completed", "returned"}
    /\ reported = ""
    /\ reported' = "COMPLETED SUCCESSFULLY"
    /\ output' = Append(output, "SPRINT 4 COMPLETED SUCCESSFULLY!")
    /\ UNCHANGED <<stage, roads_file, traffic_file, roads_gdf, traffic_df,
                   avg_speeds, roads_with_traffic, G, s3vars, s4vars>>

InitPool ==
    /\ current_time = <<>>
    /\ time_points = <<>>
    /\ pc = "idle"
    /\ sprint_number = 0
    /\ ended = ""
    /\ results = <<>>
    /\ files = {}
    /\ stage = "s4_graph"
    /\ roads_file \in {AbsentFile} \cup {FileOf(t) : t \in PoolRoadTables}
    /\ traffic_file \in {AbsentFile}
                        \cup {FileOf([columns |-> TrafficColumns, rows |-> t]) :
                                 t \in PoolTrafficTables}
    /\ roads_gdf = [columns |-> {}, rows |-> <<>>]
    /\ traffic_df = <<>>
    /\ avg_speeds = [column |-> "", mean |-> <<>>]
    /\ roads_with_traffic = [columns |-> {}, rows |-> <<>>]
    /\ G = [nodes |-> {}, edges |-> {}]
    /\ shortest_path = None
    /\ total_travel_time = Zero
    /\ total_distance = Zero
    /\ num_shipments \in 0..MaxShipments
    /\ n_clusters = 0
    /\ shipments = <<>>
    /\ pools = <<>>
    /\ pooled_results = <<>>
    /\ final_output = <<>>
    /\ reported = ""
    /\ output = <<>>

NextPool ==
    \/ S4BuildGraph
    \/ S4GenerateShipments
    \/ S4Pooling
    \/ S4ProcessPool
    \/ S4FinalOutput
    \/ RunSprintReturn

SpecPool == InitPool /\ [][NextPool]_vars

----------------------------------------------------------------------------
(* The pipeline driver: main() and run_sprint() of run_all_sprints.py. A
   sprint function is taken as a whole here: it runs to its end and writes
   its output, or one of its except handlers (or its missing-input test)
   prints an error and returns, or an exception leaves it. *)

\* The sprint numbers of the list `sprints`, in its order.
sprints == <<1, 2, 3, 4>>

roads_geojson == "delhi_road_network_filtered.geojson"
traffic_csv == "delhi_simulated_traffic_data.csv"
route_png == "delhi_optimal_route.png"
route_csv == "delhi_optimal_route.csv"
pooled_json == "delhi_pooled_routes.json"

\* The files a sprint reads, without which it cannot run to its end.
InputsOf(n) ==
    IF n = 1 THEN {}
    ELSE IF n = 2 THEN {roads_geojson}
    ELSE {roads_geojson, traffic_csv}

\* The files a sprint has written when it runs to its end.
OutputsOf(n) ==
    IF n = 1 THEN {roads_geojson}
    ELSE IF n = 2 THEN {traffic_csv}
    ELSE IF n = 3 THEN {route_png, route_csv}
    ELSE {pooled_json}

\* The for loop takes the next sprint and run_sprint prints its banner and
\* calls the sprint function.
RunSprintStart ==
    /\ pc = "loop"
    /\ sprint_number < Len(sprints)
    /\ sprint_number' = sprints[sprint_number + 1]
    /\ pc' = "sprint"
    /\ ended' = ""
    /\ output' = Append(output, <<"RUNNING SPRINT", sprint_number'>>)
    /\ UNCHANGED <<results, files, sprintvars>>

\* The sprint function runs to its last line: its inputs were there and its
\* outputs are written.
SprintCompletes ==
    /\ pc = "sprint"
    /\ InputsOf(sprint_number) \subseteq files
    /\ files' = files \cup OutputsOf(sprint_number)
    /\ ended' = "end"
    /\ pc' = "report"
    /\ output' = Append(output, <<"Sprint completed successfully!", sprint_number>>)
    /\ UNCHANGED <<sprint_number, results, sprintvars>>

\* The sprint function stops early: a missing input file or an except
\* handler prints an error, and the function returns.
SprintReturnsEarly ==
    /\ pc = "sprint"
    /\ ended' = "return"
    /\ pc' = "report"
    /\ output' = Append(output, <<"Error", sprint_number>>)
    /\ UNCHANGED <<sprint_number, results, files, sprintvars>>

\* An exception leaves the import or the sprint function (code outside the
\* sprint's try blocks, as steps 2 to 6 of sprint 2).
SprintRaises ==
    /\ pc = "sprint"
    /\ ended' = "raise"
    /\ pc' = "report"
    /\ UNCHANGED <<sprint_number, results, files, output, sprintvars>>

\* run_sprint's return value: True unless an exception reached its handler.
success_of(how) == how # "raise"

\* The loop that goes on whatever run_sprint returned.
never_breaks(success) == TRUE

\* `if not success: break`: the loop goes on after a success only.
loop_goes_on(success) == success

\* run_sprint prints its verdict and returns; main appends it to results
\* and leaves the loop after a failure or after the last sprint.
RunSprintReport ==
    /\ pc = "report"
    /\ LET success == success_of(ended)
       IN /\ results' = Append(results,
                               [sprint_number |-> sprint_number, success |-> success])
          /\ output' = output
                \o << <<(IF success THEN "COMPLETED SUCCESSFULLY" ELSE "FAILED"),
                        sprint_number>> >>
                \o (IF success THEN <<>> ELSE << <<"Stopping pipeline", sprint_number>> >>)
          /\ pc' = IF loop_goes_on(success) /\ sprint_number < Len(sprints)
                   THEN "loop" ELSE "summary"
    /\ UNCHANGED <<sprint_number, ended, files, sprintvars>>

\* successful_sprints = sum(1 for _, _, success in results if success)
successful_sprints ==
    Cardinality({i \in DOMAIN results : results[i].success})

\* The final summary of main.
MainSummary ==
    /\ pc = "summary"
    /\ output' = Append(output,
                        IF successful_sprints = Len(sprints)
                        THEN <<"All sprints completed successfully!", successful_sprints>>
                        ELSE <<"Pipeline incomplete", Len(sprints) - successful_sprints>>)
    /\ pc' = "done"
    /\ UNCHANGED <<sprint_number, ended, results, files, sprintvars>>

\* main() starts with an empty results list; data/ may hold the road and
\* traffic files of an earlier run.
InitPipeline ==
    /\ current_time = <<>>
    /\ time_points = <<>>
    /\ pc = "loop"
    /\ sprint_number = 0
    /\ ended = ""
    /\ results = <<>>
    /\ files \in SUBSET {roads_geojson, traffic_csv}
    /\ output = <<>>
    /\ stage = "idle"
    /\ roads_file = AbsentFile
    /\ traffic_file = AbsentFile
    /\ roads_gdf = [columns |-> {}, rows |-> <<>>]
    /\ traffic_df = <<>>
    /\ avg_speeds = [column |-> "", mean |-> <<>>]
    /\ roads_with_traffic = [columns |-> {}, rows |-> <<>>]
    /\ G = [nodes |-> {}, edges |-> {}]
    /\ shortest_path = None
    /\ total_travel_time = Zero
    /\ total_distance = Zero
    /\ num_shipments = 0
    /\ n_clusters = 0
    /\ shipments = <<>>
    /\ pools = <<>>
    /\ pooled_results = <<>>
    /\ final_output = <<>>
    /\ reported = ""

NextPipeline ==
    \/ RunSprintStart
    \/ SprintCompletes
    \/ SprintReturnsEarly
    \/ SprintRaises
    \/ RunSprintReport
    \/ MainSummary

SpecPipeline == InitPipeline /\ [][NextPipeline]_vars

----------------------------------------------------------------------------
(* Sprint 2's table of base speeds by road class, and its lookup              *)
(* base_speeds.get(highway_type, base_speeds['default']).                     *)

base_speeds ==
    << <<primary, 45>>, <<secondary, 35>>, <<tertiary, 25>>,
       <<primary_link, 40>>, <<secondary_link, 30>>, <<tertiary_link, 20>>,
       <<<<"default">>, 30>> >>

base_speed(highway_type) ==
    LET hits == {i \in DOMAIN base_speeds : base_speeds[i][1] = highway_type}
    IN IF hits = {} THEN 30 ELSE base_speeds[CHOOSE i \in hits : TRUE][2]

----------------------------------------------------------------------------
(* Sprint 2: generate_traffic_simulation.                                   *)

\* datetime(2024, 1, 1) and datetime(2024, 1, 7): a datetime of January 2024
\* is its day of the month and its hour (minutes and seconds stay 0).
start_date == [day |-> 1, hour |-> 0]
end_date == [day |-> 7, hour |-> 0]

\* a < b for datetimes.
TimeLt(a, b) == a.day < b.day \/ (a.day = b.day /\ a.hour < b.hour)

\* t + time_interval, time_interval = timedelta(hours=1).
time_interval(t) ==
    IF t.hour = 23 THEN [day |-> t.day + 1, hour |-> 0]
    ELSE [day |-> t.day, hour |-> t.hour + 1]

\* timestamp.weekday(), 0 = Monday .. 6 = Sunday: 2024-01-01 is a Monday.
weekday(t) == (t.day - 1) % 7

\* The road tables sprint 2 is run on: at most two segments.
SimRoadTables ==
    { [columns |-> Sprint1Columns,
       rows |-> RowsOf({RoadRow(s, PoolLength(s)) : s \in S})] : S \in PoolSlotSets }

\* np.random.uniform(low, high): a value of [low, high); the low end and the
\* middle stand for the interval.
uniform(low, high) == {low, RatDiv(RatAdd(low, high), Rat(2, 1))}

\* The draws of one run: all draws of one kind give the same value.
Draws ==
    [rush : uniform(Rat(5, 10), Rat(7, 10)),
     shoulder : uniform(Rat(75, 100), Rat(85, 100)),
     night : uniform(Rat(11, 10), Rat(12, 10)),
     weekend_afternoon : uniform(Rat(85, 100), Rat(95, 100)),
     weekend_night : uniform(Rat(115, 100), Rat(125, 100)),
     noise : uniform(Rat(9, 10), Rat(11, 10))]

\* The condition under which the rush-hour reduction is applied to a speed.
rush_hour_effect(day_of_week, hour) ==
    day_of_week < 5 /\ ((8 <= hour /\ hour <= 10) \/ (17 <= hour /\ hour <= 19))

\* The factor the time-based patterns multiply the base speed by.
pattern_factor(day_of_week, hour, d) ==
    IF day_of_week < 5
    THEN IF rush_hour_effect(day_of_week, hour) THEN d.rush
         ELSE IF (6 <= hour /\ hour <= 8) \/ (19 <= hour /\ hour <= 21)
              THEN d.shoulder
         ELSE IF 22 <= hour \/ hour <= 5 THEN d.night
         ELSE Rat(1, 1)
    ELSE IF 10 <= hour /\ hour <= 14 THEN d.weekend_afternoon
         ELSE IF 22 <= hour \/ hour <= 6 THEN d.weekend_night
         ELSE Rat(1, 1)

\* max(5, min(80, x))
realistic(x) ==
    LET low == IF RatLe(x, Rat(80, 1)) THEN x ELSE Rat(80, 1)
    IN IF RatLe(Rat(5, 1), low) THEN low ELSE Rat(5, 1)

\* The record appended to traffic_data for a road and a time point.
traffic_record(road, timestamp, d) ==
    LET hour == timestamp.hour
        day_of_week == weekday(timestamp)
        simulated_speed ==
            RatMul(RatMul(Rat(base_speed(road.highway), 1),
                          pattern_factor(day_of_week, hour, d)),
                   d.noise)
    IN [osmid |-> road.osmid,
        timestamp |-> timestamp,
        simulated_speed_kph |-> Round2(realistic(simulated_speed)),
        highway_type |-> road.highway,
        base_speed |-> base_speed(road.highway)]

\* traffic_data after the loops over the roads and the time points.
traffic_data(roads, points, d) ==
    [k \in 1..(Len(roads) * Len(points)) |->
        traffic_record(roads[((k - 1) \div Len(points)) + 1],
                       points[((k - 1) % Len(points)) + 1], d)]

\* pd.DataFrame(traffic_data): no columns when the list is empty.
DataFrame(data) ==
    [columns |-> IF data = <<>> THEN {}
                 ELSE {"osmid", "timestamp", "simulated_speed_kph",
                       "highway_type", "base_speed"},
     rows |-> data]

\* The lambda of the is_rush_hour column: `and` binds tighter than `or`.
is_rush_hour(row) ==
    \/ (row.hour >= 8 /\ row.hour <= 10)
    \/ ((row.hour >= 17 /\ row.hour <= 19) /\ ~row.is_weekend)

\* The time-based features added to a row, one column after the other.
with_features(row) ==
    LET r1 == ("hour" :> row.timestamp.hour) @@ row
        r2 == ("day_of_week" :> weekday(row.timestamp)) @@ r1
        r3 == ("is_weekend" :> (r2.day_of_week \in {5, 6})) @@ r2
    IN ("is_rush_hour" :> is_rush_hour(r3)) @@ r3

output_columns == {"osmid", "timestamp", "simulated_speed_kph"}

\* df[columns]
Project(df, columns) ==
    [columns |-> columns,
     rows |-> [i \in DOMAIN df.rows |-> [c \in columns |-> df.rows[i][c]]]]

s2rest == <<avg_speeds, roads_with_traffic, G, s3vars, s4vars, reported, mainvars>>

\* Step 1: load the road network; a missing file ends the sprint.
S2Load ==
    /\ stage = "s2_load"
    /\ IF ~roads_file.exists
       THEN /\ stage' = "returned"
            /\ output' = Append(output, "Input file not found")
            /\ UNCHANGED <<roads_gdf, current_time>>
       ELSE /\ roads_gdf' = [columns |-> roads_file.columns,
                             rows |-> roads_file.rows]
            /\ current_time' = start_date
            /\ stage' = "s2_times"
            /\ output' = Append(output, "Loaded road segments")
    /\ UNCHANGED <<roads_file, traffic_file, traffic_df, time_points, s2rest>>

\* Step 3: one turn of the loop `while current_time < end_date`.
S2TimePoint ==
    /\ stage = "s2_times"
    /\ TimeLt(current_time, end_date)
    /\ time_points' = Append(time_points, current_time)
    /\ current_time' = time_interval(current_time)
    /\ UNCHANGED <<stage, output, roads_file, traffic_file, roads_gdf,
                   traffic_df, s2rest>>

\* Step 4 and the first line of step 5: the loops over the roads and the
\* time points, and the data frame of the records.
S2Simulate ==
    /\ stage = "s2_times"
    /\ ~TimeLt(current_time, end_date)
    /\ \E d \in Draws :
          traffic_df' = DataFrame(traffic_data(roads_gdf.rows, time_points, d))
    /\ stage' = "s2_features"
    /\ output' = Append(output, "Generated traffic records")
    /\ UNCHANGED <<roads_file, traffic_file, roads_gdf, simvars, s2rest>>

\* Step 5: the time-based features; traffic_df['timestamp'] raises KeyError
\* on a frame without columns, outside every try block.
S2AddFeatures ==
    /\ stage = "s2_features"
    /\ IF "timestamp" \notin traffic_df.columns
       THEN /\ stage' = "raised"
            /\ UNCHANGED <<traffic_df, output>>
       ELSE /\ traffic_df' =
                 [columns |-> traffic_df.columns
                                \cup {"hour", "day_of_week", "is_weekend",
                                      "is_rush_hour"},
                  rows |-> [i \in DOMAIN traffic_df.rows |->
                               with_features(traffic_df.rows[i])]]
            /\ stage' = "s2_save"
            /\ output' = Append(output, "Traffic DataFrame created")
    /\ UNCHANGED <<roads_file, traffic_file, roads_gdf, simvars, s2rest>>

\* Step 7: write the three output columns; an error of to_csv is caught and
\* ends the sprint.
S2Save ==
    /\ stage = "s2_save"
    /\ \/ /\ traffic_file' = FileOf(Project(traffic_df, output_columns))
          /\ stage' = "completed"
          /\ output' = Append(output, "Sprint 2 completed successfully!")
       \/ /\ stage' = "returned"
          /\ output' = Append(output, "Error saving data")
          /\ UNCHANGED traffic_file
    /\ UNCHANGED <<roads_file, roads_gdf, traffic_df, simvars, s2rest>>

InitTraffic ==
    /\ current_time = <<>>
    /\ time_points = <<>>
    /\ pc = "idle"
    /\ sprint_number = 0
    /\ ended = ""
    /\ results = <<>>
    /\ files = {}
    /\ stage = "s2_load"
    /\ roads_file \in {AbsentFile} \cup {FileOf(t) : t \in SimRoadTables}
    /\ traffic_file = AbsentFile
    /\ roads_gdf = [columns |-> {}, rows |-> <<>>]
    /\ traffic_df = <<>>
    /\ avg_speeds = [column |-> "", mean |-> <<>>]
    /\ roads_with_traffic = [columns |-> {}, rows |-> <<>>]
    /\ G = [nodes |-> {}, edges |-> {}]
    /\ shortest_path = None
    /\ total_travel_time = Zero
    /\ total_distance = Zero
    /\ num_shipments = 0
    /\ n_clusters = 0
    /\ shipments = <<>>
    /\ pools = <<>>
    /\ pooled_results = <<>>
    /\ final_output = <<>>
    /\ reported = ""
    /\ output = <<>>

NextTraffic == S2Load \/ S2TimePoint \/ S2Simulate \/ S2AddFeatures \/ S2Save

SpecTraffic == InitTraffic /\ [][NextTraffic]_vars

----------------------------------------------------------------------------
(* Properties of the single-route run (SpecRoute). *)

\* The graph-building step of sprint 3 has run to its end.
GraphBuilt3 == stage \in {"s3_route", "s3_save", "completed"}

\* The graph-building step has run, to its end or into its except handler.
GraphStepRan ==
    \/ GraphBuilt3
    \/ /\ stage = "returned"
       /\ output # <<>>
       /\ output[Len(output)] = "Error rebuilding graph"

\* C1: after the graph-building step every segment has a travel_time weight
\* that is strictly positive and finite, whatever its length (>= 0) and its
\* resolved speed (zero and missing included); a zero or missing speed never
\* leads to a division by zero, a zero weight or an infinite weight.
C1_WeightsPositiveFinite ==
    GraphStepRan =>
        \A e \in G.edges :
            /\ "travel_time" \in DOMAIN e
            /\ RatLt(Zero, e.travel_time)

\* The walks of the graph with at most Cardinality(nodes) + 1 nodes.
Walks(Gr) ==
    { q \in UNION { [1..n -> Gr.nodes] : n \in 1..(Cardinality(Gr.nodes) + 1) } :
        \A i \in 1..(Len(q) - 1) : EdgesBetween(Gr, q[i], q[i + 1]) # {} }

\* The total travel time of a walk: the sum, over its consecutive node
\* pairs, of the least travel time among the segments joining the pair.
RECURSIVE WalkTime(_, _)
WalkTime(Gr, q) ==
    IF Len(q) < 2 THEN Zero
    ELSE RatAdd(RatMin({e.travel_time : e \in EdgesBetween(Gr, q[1], q[2])}),
                WalkTime(Gr, Tail(q)))

\* path is a minimum-travel-time walk from s to t among the walks W of the
\* graph, or None when W has no walk from s to t.
OptimalOrNone(Gr, W, path, s, t) ==
    \A p \in {path}, others \in {{q \in W : q[1] = s /\ q[Len(q)] = t}} :
        IF others = {} THEN p = None
        ELSE /\ p \in others
             /\ \A time \in {WalkTime(Gr, p)} :
                   \A q \in others : RatLe(time, WalkTime(Gr, q))

\* C2: for every pair of nodes with the destination reachable from the
\* source, the path the shortest-path query returns (find_optimal_path, for
\* every pair; sprint 3's call, for its start and end node) has a total travel
\* time no greater than that of any other path between the two, and the
\* travel time sprint 3 reports for its route is that minimum.
C2_ShortestPathOptimal ==
    /\ stage = "s3_route" =>
          \A W \in {Walks(G)} :
             \A s \in G.nodes, t \in G.nodes :
                OptimalOrNone(G, W, find_optimal_path(G, s, t), s, t)
    /\ stage = "s3_save" =>
          /\ shortest_path # None
          /\ OptimalOrNone(G, Walks(G), shortest_path,
                           nearest_nodes(G, start_coords[1], start_coords[2]),
                           nearest_nodes(G, end_coords[1], end_coords[2]))
          /\ total_travel_time = WalkTime(G, shortest_path)
    /\ (stage = "returned" /\ output[Len(output)] = "No path found between start and end points") =>
          OptimalOrNone(G, Walks(G), None,
                        nearest_nodes(G, start_coords[1], start_coords[2]),
                        nearest_nodes(G, end_coords[1], end_coords[2]))

\* A route over two segments was found although a direct segment exists.
C2_Witness ==
    /\ stage = "completed"
    /\ Len(shortest_path) = 3
    /\ EdgesBetween(G, shortest_path[1], shortest_path[3]) # {}

\* The scenario's inputs: segments A->B (1000 m) and B->C (2000 m) with
\* observed speeds 50 and 40 km/h.
Scenario6 ==
    /\ roads_file.exists /\ traffic_file.exists
    /\ {<<r.osmid, r.u, r.v, r.length>> :
            r \in {roads_file.rows[i] : i \in DOMAIN roads_file.rows}}
           = {<<101, 1, 2, Rat(1000, 1)>>, <<102, 2, 3, Rat(2000, 1)>>}
    /\ traffic_file.rows = << [osmid |-> 101, simulated_speed_kph |-> 50],
                              [osmid |-> 102, simulated_speed_kph |-> 40] >>

Merged3 == stage \in {"s3_graph", "s3_route", "s3_save", "completed"}

\* C7: every segment without an aggregated speed gets the default speed of
\* its own road class (primary 45, secondary 35, tertiary 25, primary_link 40,
\* secondary_link 30, tertiary_link 20, any other class 30).
C7_ClassDefaults ==
    Merged3 =>
        \A i \in DOMAIN roads_with_traffic.rows :
            LET r == roads_with_traffic.rows[i]
            IN r.osmid \notin DOMAIN avg_speeds.mean
                  => r.avg_speed_kph = Rat(base_speed(r.highway), 1)

----------------------------------------------------------------------------
(* Properties of the pooling run (SpecPool). *)

Range(seq) == {seq[i] : i \in DOMAIN seq}

\* The pooling step has run, to its end or into its except handler.
PoolingRan ==
    \/ stage \in {"s4_routes", "completed"}
    \/ "Error in shipment pooling" \in Range(output)
    \/ "Error generating final output" \in Range(output)

\* The places <<pool, position>> at which a shipment is a pool member.
PlacesOf(ship) ==
    {pl \in (DOMAIN pools) \X (1..Len(shipments)) :
        /\ pl[2] \in DOMAIN pools[pl[1]].members
        /\ pools[pl[1]].members[pl[2]] = ship}

\* C3: for every shipment list of at least 2 shipments, after the pooling
\* step every shipment is a member of exactly one pool, every pool member is
\* one of the shipments, and no pool is empty.
C3_PoolsPartition ==
    (PoolingRan /\ Len(shipments) >= 2) =>
        /\ \A i \in DOMAIN shipments : Cardinality(PlacesOf(shipments[i])) = 1
        /\ \A j \in DOMAIN pools : Range(pools[j].members) \subseteq Range(shipments)
        /\ \A j \in DOMAIN pools : Len(pools[j].members) >= 1
        /\ Len(pools) >= 1

\* Three shipments have been pooled into two pools, one of two shipments.
C3_Witness ==
    /\ stage = "s4_routes"
    /\ Len(shipments) = 3
    /\ Len(pools) = 2
    /\ \E j \in DOMAIN pools : Len(pools[j].members) = 2

\* The entries of a stop sequence for one shipment and one stop type.
EntriesOf(route, sid, type) ==
    {q \in DOMAIN route : route[q].shipment_id = sid /\ route[q].stop_type = type}

\* C4: in every pool's result, route_coordinates has num_stops entries:
\* exactly one pickup and one delivery per member shipment and no other
\* stop, also when a stop cannot be resolved.
C4_TwoStopsPerShipment ==
    \A i \in DOMAIN pooled_results :
        LET r == pooled_results[i]
        IN /\ Len(r.route_coordinates) = r.num_stops
           /\ r.num_stops = 2 * r.num_shipments
           /\ \A sid \in Range(r.shipments) :
                 /\ Cardinality(EntriesOf(r.route_coordinates, sid, "pickup")) = 1
                 /\ Cardinality(EntriesOf(r.route_coordinates, sid, "delivery")) = 1
           /\ \A q \in DOMAIN r.route_coordinates :
                 r.route_coordinates[q].shipment_id \in Range(r.shipments)

\* The keys of a pool_result.
PoolResultKeys ==
    {"group_id", "shipments", "num_shipments", "total_weight",
     "route_coordinates", "total_distance_km", "total_travel_time_minutes",
     "num_stops", "efficiency_score"}

\* The legs of the i-th routed pool that have no path.
NoPathLegs(i) ==
    LET ordered_stops == OrderedStops(pools[i].members)
    IN IF ResolveFails(G) THEN {}
       ELSE {l \in 1..(Len(ordered_stops) - 1) : LegPath(G, ordered_stops, l) = None}

\* C5: when a leg between two consecutive stops of a pool has no path, the
\* pool's result is still produced, carries a mark of the unreachable stop
\* pair (an entry beside the nine it always has) and a warning is recorded.
C5_NoPathLegFlagged ==
    \A i \in DOMAIN pooled_results :
        NoPathLegs(i) # {} =>
            /\ DOMAIN pooled_results[i] # PoolResultKeys
            /\ \E w \in Range(output) : w = "Warning: Could not process stop"

\* C8: in the pooling run, whatever the traffic table holds, the step that
\* aggregates the speeds, merges them onto the road segments and fills the
\* gaps ends without an error, for every road table without a zero speed.
C8_MissingTrafficNoError ==
    ( /\ stage # "s4_graph"
      /\ roads_file.exists
      /\ traffic_file.exists
      /\ \A i \in DOMAIN roads_file.rows :
            Get(roads_file.rows[i], "avg_speed_kph", NaN) # Zero )
    => "Error rebuilding graph" \notin Range(output)

\* clamp(x, lo, hi)
Clamp(x, lo, hi) == IF x < lo THEN lo ELSE IF x > hi THEN hi ELSE x

\* The highest shipment count for which the cluster count is compared with
\* the clamp.
MaxCount == 40

\* The cluster count is the clamp, is at most the shipment count, and the
\* clustering has not failed.
ClusterCountFits ==
    /\ n_clusters = Clamp(Len(shipments) \div 4, 2, 8)
    /\ n_clusters <= Len(shipments)
    /\ "Error in shipment pooling" \notin Range(output)

PoolTotals(i) ==
    LET ordered_stops == OrderedStops(pools[i].members)
    IN LegTotals(G, ordered_stops, Len(ordered_stops) - 1)

\* C11: for every pool, efficiency_score is shipment_count divided by the
\* hours of travel whenever the total travel time is greater than zero, and
\* is shipment_count (the one-hour floor) only when the travel time is zero.
C11_EfficiencyScore ==
    \A i \in DOMAIN pooled_results :
        LET r == pooled_results[i]
            tt == PoolTotals(i).travel_time
        IN IF RatLt(Zero, tt)
           THEN r.efficiency_score =
                   Round2(RatDiv(Rat(r.num_shipments, 1), RatDiv(tt, Rat(60, 1))))
           ELSE r.efficiency_score = Rat(r.num_shipments, 1)

\* The squared distance of a point <<lat, lng>> from the centroid of the
\* members' pickup points, scaled by the square of the number of members.
FromPickupCentroid(lat, lng, members) ==
    LET n == Len(members)
        dlat == n * lat - SumOver(members, "start_lat")
        dlng == n * lng - SumOver(members, "start_lng")
    IN dlat * dlat + dlng * dlng

\* The stop sequence st of a pool is sorted: the pickups of all members
\* first, by distance from their centroid, then the deliveries of all
\* members, by distance from the last of those pickups.
SortedStops(st, members) ==
    LET np == Len(members)
    IN /\ Len(st) = 2 * np
       /\ \A q \in 1..np : st[q].type = "pickup"
       /\ \A q \in (np + 1)..(2 * np) : st[q].type = "delivery"
       /\ \A q \in 1..(np - 1) :
             FromPickupCentroid(st[q].lat, st[q].lng, members)
                <= FromPickupCentroid(st[q + 1].lat, st[q + 1].lng, members)
       /\ \A q \in (np + 1)..(2 * np - 1) :
             Dist2(<<st[q].lat, st[q].lng>>, <<st[np].lat, st[np].lng>>)
                <= Dist2(<<st[q + 1].lat, st[q + 1].lng>>, <<st[np].lat, st[np].lng>>)

\* The reported stops are the stops of st, in st's order.
ReportsInOrder(route, st) ==
    /\ Len(route) = Len(st)
    /\ \A q \in DOMAIN route :
          /\ route[q].stop_type = st[q].type
          /\ route[q].shipment_id = st[q].shipment_id
          /\ route[q].sequence = q - 1

\* C12: in every pool's final stop sequence the pickups come in ascending
\* order of distance from the centroid of the pool's pickups and the
\* deliveries in ascending order of distance from the last pickup (for two
\* shipments: pickup, pickup, delivery, delivery), and the stops that are
\* resolved are reported in that order.
C12_StopOrder ==
    \A i \in DOMAIN pooled_results :
        \A st \in {OrderedStops(pools[i].members)} :
            /\ SortedStops(st, pools[i].members)
            /\ pooled_results[i].num_stops = Len(st)
            /\ ~ResolveFails(G)
                  => ReportsInOrder(pooled_results[i].route_coordinates, st)

\* A pool of three shipments has been routed, and sorting has moved its
\* first shipment's pickup from the first place.
C12_Witness ==
    \E i \in DOMAIN pooled_results :
        /\ Len(pools[i].members) = 3
        /\ ~ResolveFails(G)
        /\ pooled_results[i].route_coordinates[1].shipment_id
              # pools[i].members[1].shipment_id

\* C13: in every pool's final stop sequence all pickups precede all
\* deliveries: every member's pickup comes before its delivery, and every
\* reported pickup has a smaller sequence number than every reported
\* delivery.
C13_PickupsBeforeDeliveries ==
    \A i \in DOMAIN pooled_results :
        /\ \A st \in {OrderedStops(pools[i].members)} :
              \A p, d \in DOMAIN st :
                 (st[p].type = "pickup" /\ st[d].type = "delivery") => p < d
        /\ \A route \in {pooled_results[i].route_coordinates} :
              /\ \A p, d \in DOMAIN route :
                    (route[p].stop_type = "pickup" /\ route[d].stop_type = "delivery")
                       => route[p].sequence < route[d].sequence
              /\ ~ResolveFails(G) =>
                    \A sid \in Range(pooled_results[i].shipments) :
                       \E p, d \in DOMAIN route :
                          /\ route[p].shipment_id = sid /\ route[p].stop_type = "pickup"
                          /\ route[d].shipment_id = sid /\ route[d].stop_type = "delivery"
                          /\ route[p].sequence < route[d].sequence

\* A pool of two shipments has been routed over a graph with nodes: its
\* four stops are reported.
C13_Witness ==
    \E i \in DOMAIN pooled_results :
        /\ Len(pools[i].members) = 2
        /\ Len(pooled_results[i].route_coordinates) = 4

----------------------------------------------------------------------------
(* Properties of the traffic aggregation. *)

\* The aggregation step has run.
Aggregated == avg_speeds.column # ""

\* The observations (row numbers) of a segment in the traffic table.
ObsOf(df, id) == {i \in DOMAIN df : df[i].osmid = id}

\* The sum of the speeds of the rows I of the table.
RECURSIVE SpeedTotal(_, _)
SpeedTotal(df, I) ==
    IF I = {} THEN 0
    ELSE LET i == CHOOSE x \in I : TRUE
         IN df[i].simulated_speed_kph + SpeedTotal(df, I \ {i})

\* C14: the aggregated-speed mapping has exactly one entry per segment
\* identifier with at least one observation, the unweighted arithmetic mean
\* of that segment's observed speeds, and no entry for any other segment.
C14_MeanPerObservedSegment ==
    Aggregated =>
        /\ \A id \in Osmids :
              (id \in DOMAIN avg_speeds.mean) <=> (ObsOf(traffic_df, id) # {})
        /\ DOMAIN avg_speeds.mean \subseteq Osmids
        /\ \A id \in DOMAIN avg_speeds.mean :
              LET m == avg_speeds.mean[id]
                  I == ObsOf(traffic_df, id)
              IN m[1] * Cardinality(I) = SpeedTotal(traffic_df, I) * m[2]

\* Segment 101 has two observations of different speeds, segment 102 none,
\* and the aggregation has run.
C14_Witness ==
    /\ Aggregated
    /\ Len(traffic_df) = 2
    /\ traffic_df[1].osmid = 101 /\ traffic_df[2].osmid = 101
    /\ traffic_df[1].simulated_speed_kph # traffic_df[2].simulated_speed_kph
    /\ DOMAIN avg_speeds.mean = {101}

\* The rearrangements of a table's rows.
Reorderings(df) ==
    {[i \in DOMAIN df |-> df[p[i]]] :
        p \in {q \in [DOMAIN df -> DOMAIN df] :
                  \A i, j \in DOMAIN df : q[i] = q[j] => i = j}}

----------------------------------------------------------------------------
(* Properties of the pool results and the run-level summary. *)

\* Step 6 has built final_output.
FinalOutputMade ==
    \/ "Sprint 4 completed successfully!" \in Range(output)
    \/ "Error generating final output" \in Range(output)

\* The results of the loop over the pools, were they taken in the order ps.
RECURSIVE ResultsInOrder(_, _)
ResultsInOrder(Gr, ps) ==
    IF ps = <<>> THEN <<>>
    ELSE <<PoolResult(Gr, Head(ps))>> \o ResultsInOrder(Gr, Tail(ps))

----------------------------------------------------------------------------
(* Properties of the path statistics. *)

\* The parallel segments from u to v that have the least travel time.
FastestBetween(Gr, u, v) ==
    {e \in EdgesBetween(Gr, u, v) :
        \A f \in EdgesBetween(Gr, u, v) : RatLe(e.travel_time, f.travel_time)}

\* The totals <<travel time, length>> a path can have when each consecutive
\* node pair contributes one of its segments of least travel time.
RECURSIVE FastestTotals(_, _)
FastestTotals(Gr, path) ==
    IF Len(path) < 2 THEN {<<Zero, Zero>>}
    ELSE {<<RatAdd(e.travel_time, rest[1]), RatAdd(e.length, rest[2])>> :
             e \in FastestBetween(Gr, path[1], path[2]),
             rest \in FastestTotals(Gr, Tail(path))}

RECURSIVE RatTotal(_, _)
RatTotal(f, I) ==
    IF I = {} THEN Zero
    ELSE LET i == CHOOSE x \in I : TRUE
         IN RatAdd(f[i], RatTotal(f, I \ {i}))

\* The statistics of the legs of the i-th pool that have a path, by leg.
ReachableLegStats(i) ==
    LET ordered_stops == OrderedStops(pools[i].members)
    IN IF ResolveFails(G) THEN <<>>
       ELSE [l \in {k \in 1..(Len(ordered_stops) - 1) :
                       LegPath(G, ordered_stops, k) # None} |->
                calculate_path_stats(G, LegPath(G, ordered_stops, l))]

----------------------------------------------------------------------------
(* Properties of the pipeline driver (SpecPipeline). *)

\* The sprints whose banner run_sprint has printed, in the order printed.
Started ==
    LET banners == SelectSeq(output, LAMBDA m : m[1] = "RUNNING SPRINT")
    IN [i \in DOMAIN banners |-> banners[i][2]]

\* C19: the driver runs the sprints in the order 1, 2, 3, 4; a sprint is
\* started only after all sprints before it were reported successful; after
\* a sprint reported as failed none is started; results holds exactly the
\* attempted sprints, in order, with at most one failure, its last entry.
C19_SprintsInOrder ==
    /\ \A i \in DOMAIN Started : Started[i] = i
    /\ Len(Started) <= Len(sprints)
    /\ \A i \in DOMAIN results : results[i].sprint_number = Started[i]
    /\ Len(results) = IF pc \in {"sprint", "report"}
                      THEN Len(Started) - 1 ELSE Len(Started)
    /\ \A i \in DOMAIN results : i < Len(Started) => results[i].success
    /\ (\E i \in DOMAIN results : ~results[i].success) => pc \in {"summary", "done"}
    /\ pc \in {"sprint", "report"} => sprint_number = Started[Len(Started)]

\* Two sprints were reported successful, the third failed, and the driver
\* has ended without starting the fourth.
C19_Witness ==
    /\ pc = "done"
    /\ Len(results) = 3
    /\ results[1].success /\ results[2].success /\ ~results[3].success
    /\ Started = <<1, 2, 3>>

\* The sprint function of sprint n ran to its end and its outputs exist.
RanToEnd(n) ==
    /\ <<"Sprint completed successfully!", n>> \in Range(output)
    /\ OutputsOf(n) \subseteq files

\* C20: the driver reports a sprint as completed successfully, and at last
\* all sprints as completed successfully, only if the sprint ran to its end
\* and wrote its output; a sprint that stopped early on an internal error
\* is reported as failed and no later sprint is started.
C20_SuccessOnlyIfCompleted ==
    /\ \A i \in DOMAIN results :
          results[i].success => RanToEnd(results[i].sprint_number)
    /\ (\E m \in Range(output) : m[1] = "All sprints completed successfully!")
          => \A i \in DOMAIN sprints : RanToEnd(sprints[i])
    /\ \A n \in Range(sprints) :
          (<<"Error", n>> \in Range(output) /\ pc \notin {"sprint", "report"})
             => /\ <<"FAILED", n>> \in Range(output)
                /\ Started[Len(Started)] = n

----------------------------------------------------------------------------
(* Properties of the traffic simulation (SpecTraffic). *)

\* The time-based features have been added to the traffic table.
FeaturesAdded == stage \in {"s2_save", "completed"}

\* C21: in the generated traffic table a record's is_rush_hour flag is true
\* exactly when its timestamp falls on a weekday (Monday to Friday) and its
\* hour is in 8..10 or 17..19, that is exactly for the records whose speed
\* received the rush-hour reduction; no weekend record is flagged.
C21_RushHourFlag ==
    FeaturesAdded =>
        \A i \in DOMAIN traffic_df.rows :
            LET row == traffic_df.rows[i]
                day == weekday(row.timestamp)
                hour == row.timestamp.hour
            IN /\ row.is_rush_hour
                    <=> (day \in 0..4 /\ hour \in (8..10) \cup (17..19))
               /\ row.is_rush_hour <=> rush_hour_effect(day, hour)
               /\ day \in {5, 6} => ~row.is_rush_hour

====
